---- MODULE Spec2Model ----
(***************************************************************************)
(* Model of tsmc_stock.py: fetch_latest_price, fetch_chart_data,           *)
(* plot_candlestick and main.  One run of main is a straight line of four  *)
(* steps; the two HTTP responses are the inputs.                           *)
(*                                                                         *)
(* JSON values are tagged records: Null, JInt(n), JFloat(n).  A number's v   *)
(* field holds its value in hundredths, so 580.50 is JFloat(58050).         *)
(* JSON objects are records; a key is present iff it is in the DOMAIN.     *)
(***************************************************************************)
EXTENDS Integers, Sequences, FiniteSets, TLC

VARIABLES
    pc,          \* position of main: start, fetched, printed, charted, done, error
    err,         \* the exception that ended the run, or "none"
    tz,          \* the local time zone's UTC offset in hours
    events,      \* the steps main has taken, in order
    quoteResp,   \* the response to the quote request
    price,       \* the value fetch_latest_price returned
    chartResp,   \* the response to the chart request
    candles,     \* the value fetch_chart_data returned
    out,         \* lines printed to standard output
    calls,       \* names of the matplotlib calls issued, in order
    segments,    \* the ax.plot calls
    xlim,        \* the argument of ax.set_xlim
    xticks,      \* the argument of ax.set_xticks
    xticklabels  \* the argument of ax.set_xticklabels

vars == <<pc, err, tz, events, quoteResp, price, chartResp, candles, out,
          calls, segments, xlim, xticks, xticklabels>>

-----------------------------------------------------------------------------
(* Bounds *)

\* longest quoteResponse.result list
MaxResults == 2
\* longest array of a chart response in SpecChart
MaxLen == 2
\* longest complete chart response in SpecPlot
MaxBars == 24

-----------------------------------------------------------------------------
(* JSON values *)

Null == [t |-> "null", v |-> 0]
JInt(n) == [t |-> "int", v |-> n]
JFloat(n) == [t |-> "float", v |-> n]

HasKey(obj, k) == k \in DOMAIN obj

Min(S) == CHOOSE m \in S : \A o \in S : m <= o
Max(S) == CHOOSE m \in S : \A o \in S : m >= o

\* The outcome of a call: an exception, or a returned value.
Raise(e) == [err |-> e, value |-> Null]
Return(x) == [err |-> "none", value |-> x]

\* float(x) of a JSON number or null
ToFloat(x) ==
    IF x.t = "null" THEN Raise("TypeError") ELSE Return(JFloat(x.v))

NoResponse == [status |-> "none"]

-----------------------------------------------------------------------------
(* fetch_latest_price *)

\* A variant that reads the last element of the result list, not the first.
FetchLatestPrice_last(resp) ==
    IF resp.status = "timeout" THEN Raise("Timeout")
    ELSE IF resp.status # "ok" THEN Raise("HTTPError")
    ELSE IF ~HasKey(resp.body, "quoteResponse") THEN Raise("KeyError")
    ELSE IF ~HasKey(resp.body.quoteResponse, "result") THEN Raise("KeyError")
    ELSE LET result == resp.body.quoteResponse.result IN
         IF Len(result) = 0 THEN Raise("ValueError")
         ELSE IF ~HasKey(result[Len(result)], "regularMarketPrice") THEN Raise("KeyError")
         ELSE ToFloat(result[Len(result)].regularMarketPrice)

\* A variant that answers an empty result list with a price of zero.
FetchLatestPrice_default(resp) ==
    IF resp.status = "timeout" THEN Raise("Timeout")
    ELSE IF resp.status # "ok" THEN Raise("HTTPError")
    ELSE IF ~HasKey(resp.body, "quoteResponse") THEN Raise("KeyError")
    ELSE IF ~HasKey(resp.body.quoteResponse, "result") THEN Raise("KeyError")
    ELSE LET result == resp.body.quoteResponse.result IN
         IF Len(result) = 0 THEN Return(JFloat(0))
         ELSE IF ~HasKey(result[1], "regularMarketPrice") THEN Raise("KeyError")
         ELSE ToFloat(result[1].regularMarketPrice)

FetchLatestPrice_result(resp) ==
    IF resp.status = "timeout" THEN Raise("Timeout")
    ELSE IF resp.status # "ok" THEN Raise("HTTPError")
    ELSE IF ~HasKey(resp.body, "quoteResponse") THEN Raise("KeyError")
    ELSE IF ~HasKey(resp.body.quoteResponse, "result") THEN Raise("KeyError")
    ELSE LET result == resp.body.quoteResponse.result IN
         IF Len(result) = 0 THEN Raise("ValueError")
         ELSE IF ~HasKey(result[1], "regularMarketPrice") THEN Raise("KeyError")
         ELSE ToFloat(result[1].regularMarketPrice)

-----------------------------------------------------------------------------
(* fetch_chart_data *)

\* datetime.fromtimestamp(ts) in a zone tzh hours east of UTC: the civil
\* date and time of day of epoch second ts.
FromTimestamp(ts, tzh) ==
    LET local == ts + tzh * 3600
        days  == local \div 86400
        secs  == local % 86400
        z     == days + 719468
        era   == z \div 146097
        doe   == z - era * 146097
        yoe   == (doe - doe \div 1460 + doe \div 36524 - doe \div 146096) \div 365
        doy   == doe - (365 * yoe + yoe \div 4 - yoe \div 100)
        mp    == (5 * doy + 2) \div 153
        d     == doy - (153 * mp + 2) \div 5 + 1
        m     == IF mp < 10 THEN mp + 3 ELSE mp - 9
        y     == yoe + era * 400 + (IF m <= 2 THEN 1 ELSE 0)
    IN [year |-> y, month |-> m, day |-> d,
        hour |-> secs \div 3600, minute |-> (secs % 3600) \div 60,
        second |-> secs % 60]

\* A variant that looks for a null in the close value only.
HasNone_close(sample) == sample[Len(sample)] = Null

\* None in (ts, open_, high, low, close)
HasNone(sample) == \E k \in 1..Len(sample) : sample[k] = Null

\* the dict appended for one sample
Candle(ts, open_, high, low, close, tzh) ==
    [time  |-> FromTimestamp(ts.v, tzh),
     open  |-> ToFloat(open_).value,
     high  |-> ToFloat(high).value,
     low   |-> ToFloat(low).value,
     close |-> ToFloat(close).value]

\* zip(...) stops at the shortest of its arguments
ZipLen(ts, o, h, l, c) == Min({Len(ts), Len(o), Len(h), Len(l), Len(c)})

\* the loop over zip(timestamps, open, high, low, close), from sample i on
RECURSIVE ZipCandles(_, _, _, _, _, _, _)
ZipCandles(ts, o, h, l, c, i, tzh) ==
    IF i > ZipLen(ts, o, h, l, c) THEN <<>>
    ELSE IF HasNone(<<ts[i], o[i], h[i], l[i], c[i]>>)
         THEN ZipCandles(ts, o, h, l, c, i + 1, tzh)
         ELSE <<Candle(ts[i], o[i], h[i], l[i], c[i], tzh)>>
              \o ZipCandles(ts, o, h, l, c, i + 1, tzh)

\* data.get("timestamp", [])
Timestamps(data) == IF HasKey(data, "timestamp") THEN data.timestamp ELSE <<>>

\* A variant that reads the four price arrays as it reads the timestamps,
\* with an empty list for an absent key.
FetchChartData_lenient(resp, tzh) ==
    IF resp.status = "timeout" THEN Raise("Timeout")
    ELSE IF resp.status # "ok" THEN Raise("HTTPError")
    ELSE IF ~HasKey(resp.body, "chart") THEN Raise("KeyError")
    ELSE IF ~HasKey(resp.body.chart, "result") THEN Raise("KeyError")
    ELSE IF Len(resp.body.chart.result) = 0 THEN Raise("IndexError")
    ELSE LET data == resp.body.chart.result[1]
             timestamps == Timestamps(data)
         IN
         IF ~HasKey(data, "indicators") THEN Raise("KeyError")
         ELSE IF ~HasKey(data.indicators, "quote") THEN Raise("KeyError")
         ELSE IF Len(data.indicators.quote) = 0 THEN Raise("IndexError")
         ELSE LET quotes == data.indicators.quote[1]
                  get(k) == IF HasKey(quotes, k) THEN quotes[k] ELSE <<>>
              IN Return(ZipCandles(timestamps, get("open"), get("high"),
                                   get("low"), get("close"), 1, tzh))

\* A variant whose zip is strict: arrays of unequal length are an error.
FetchChartData_strict(resp, tzh) ==
    IF resp.status = "timeout" THEN Raise("Timeout")
    ELSE IF resp.status # "ok" THEN Raise("HTTPError")
    ELSE IF ~HasKey(resp.body, "chart") THEN Raise("KeyError")
    ELSE IF ~HasKey(resp.body.chart, "result") THEN Raise("KeyError")
    ELSE IF Len(resp.body.chart.result) = 0 THEN Raise("IndexError")
    ELSE LET data == resp.body.chart.result[1]
             timestamps == Timestamps(data)
         IN
         IF ~HasKey(data, "indicators") THEN Raise("KeyError")
         ELSE IF ~HasKey(data.indicators, "quote") THEN Raise("KeyError")
         ELSE IF Len(data.indicators.quote) = 0 THEN Raise("IndexError")
         ELSE LET quotes == data.indicators.quote[1] IN
              IF \E k \in {"open", "high", "low", "close"} : ~HasKey(quotes, k)
              THEN Raise("KeyError")
              ELSE IF \E a \in {quotes.open, quotes.high, quotes.low, quotes.close} :
                         Len(a) # Len(timestamps)
              THEN Raise("ValueError")
              ELSE Return(ZipCandles(timestamps, quotes.open, quotes.high,
                                     quotes.low, quotes.close, 1, tzh))

FetchChartData_result(resp, tzh) ==
    IF resp.status = "timeout" THEN Raise("Timeout")
    ELSE IF resp.status # "ok" THEN Raise("HTTPError")
    ELSE IF ~HasKey(resp.body, "chart") THEN Raise("KeyError")
    ELSE IF ~HasKey(resp.body.chart, "result") THEN Raise("KeyError")
    ELSE IF Len(resp.body.chart.result) = 0 THEN Raise("IndexError")
    ELSE LET data == resp.body.chart.result[1]
             timestamps == Timestamps(data)
         IN
         IF ~HasKey(data, "indicators") THEN Raise("KeyError")
         ELSE IF ~HasKey(data.indicators, "quote") THEN Raise("KeyError")
         ELSE IF Len(data.indicators.quote) = 0 THEN Raise("IndexError")
         ELSE LET quotes == data.indicators.quote[1] IN
              IF \E k \in {"open", "high", "low", "close"} : ~HasKey(quotes, k)
              THEN Raise("KeyError")
              ELSE Return(ZipCandles(timestamps, quotes.open, quotes.high,
                                     quotes.low, quotes.close, 1, tzh))

-----------------------------------------------------------------------------
(* plot_candlestick *)

\* Horizontal positions of segments are counted in fifths, so that the
\* tick half-width 0.2 is one unit and position idx is XUnit * idx.
XUnit == 5

Green == "#2ca02c"
Red == "#d62728"

\* A variant that colors a flat bar red.
Color_strict(candle) == IF candle.close.v > candle.open.v THEN Green ELSE Red

Color(candle) == IF candle.close.v >= candle.open.v THEN Green ELSE Red

Segment(x1, x2, y1, y2, color, linewidth) ==
    [x |-> <<x1, x2>>, y |-> <<y1, y2>>, color |-> color, linewidth |-> linewidth]

\* A variant that draws the open tick to the right and the close tick to
\* the left of the wick.
BarSegments_swapped(idx, candle) ==
    LET color == Color(candle) IN
    << Segment(XUnit * idx, XUnit * idx, candle.low, candle.high, color, 1),
       Segment(XUnit * idx, XUnit * idx + 1, candle.open, candle.open, color, 3),
       Segment(XUnit * idx - 1, XUnit * idx, candle.close, candle.close, color, 3) >>

\* the three ax.plot calls of one iteration; idx counts from 0
BarSegments(idx, candle) ==
    LET color == Color(candle) IN
    << Segment(XUnit * idx, XUnit * idx, candle.low, candle.high, color, 1),
       Segment(XUnit * idx - 1, XUnit * idx, candle.open, candle.open, color, 3),
       Segment(XUnit * idx, XUnit * idx + 1, candle.close, candle.close, color, 3) >>

\* for idx, candle in enumerate(candles), from idx on
RECURSIVE PlotLoop(_, _)
PlotLoop(cs, idx) ==
    IF idx >= Len(cs) THEN <<>>
    ELSE BarSegments(idx, cs[idx + 1]) \o PlotLoop(cs, idx + 1)

\* A variant that rounds the step up.
TickStep_ceil(n) == Max({(n + 5) \div 6, 1})

TickStep(n) == Max({n \div 6, 1})

\* list(range(start, stop, step)) for step > 0
Range(start, stop, step) ==
    LET count == IF stop > start THEN (stop - start + step - 1) \div step ELSE 0
    IN [k \in 1..count |-> start + (k - 1) * step]

Ticks(n) == Range(0, n, TickStep(n))

TwoDigits(n) == IF n < 10 THEN "0" \o ToString(n) ELSE ToString(n)

\* time.strftime("%m-%d")
Strftime(time) == TwoDigits(time.month) \o "-" \o TwoDigits(time.day)

TickLabels(cs) ==
    LET ticks == Ticks(Len(cs)) IN
    [k \in 1..Len(ticks) |-> Strftime(cs[ticks[k] + 1].time)]

NoDataNotice == "no data to plot"

\* A variant without the early return for an empty sequence.
PlotCandlestick_always(cs) ==
    LET segs == PlotLoop(cs, 0) IN
    [out |-> <<>>,
     calls |-> <<"subplots">> \o [k \in 1..Len(segs) |-> "plot"]
               \o <<"set_title", "set_ylabel", "set_xlim", "set_xticks",
                    "set_xticklabels", "grid", "tight_layout", "show">>,
     segments |-> segs,
     xlim |-> <<-1, Len(cs)>>,
     xticks |-> Ticks(Len(cs)),
     xticklabels |-> TickLabels(cs)]

\* everything one call of plot_candlestick prints and draws
PlotCandlestick_effect(cs) ==
    IF Len(cs) = 0
    THEN [out |-> <<NoDataNotice>>, calls |-> <<>>, segments |-> <<>>,
          xlim |-> <<>>, xticks |-> <<>>, xticklabels |-> <<>>]
    ELSE LET segs == PlotLoop(cs, 0) IN
         [out |-> <<>>,
          calls |-> <<"subplots">> \o [k \in 1..Len(segs) |-> "plot"]
                    \o <<"set_title", "set_ylabel", "set_xlim", "set_xticks",
                         "set_xticklabels", "grid", "tight_layout", "show">>,
          segments |-> segs,
          xlim |-> <<-1, Len(cs)>>,
          xticks |-> Ticks(Len(cs)),
          xticklabels |-> TickLabels(cs)]

-----------------------------------------------------------------------------
(* main *)

\* f"{price:.2f}" of a float held in hundredths
Format2f(x) ==
    ToString(x.v \div 100) \o "." \o TwoDigits(x.v % 100)

PriceLine(p) == "price: " \o Format2f(p) \o " TWD"

\* A variant in which main goes on after an exception.
NextPc_ignore(after, e) == after

\* An exception in a step propagates out of main; otherwise main goes on.
NextPc(after, e) == IF e = "none" THEN after ELSE "error"

Init(Offsets) ==
    /\ pc = "start"
    /\ err = "none"
    /\ tz \in Offsets
    /\ events = <<>>
    /\ quoteResp = NoResponse
    /\ price = Null
    /\ chartResp = NoResponse
    /\ candles = <<>>
    /\ out = <<>>
    /\ calls = <<>>
    /\ segments = <<>>
    /\ xlim = <<>>
    /\ xticks = <<>>
    /\ xticklabels = <<>>

\* price = fetch_latest_price()
FetchLatestPrice(Responses) ==
    /\ pc = "start"
    /\ \E resp \in Responses :
         LET r == FetchLatestPrice_result(resp) IN
         /\ quoteResp' = resp
         /\ price' = r.value
         /\ err' = r.err
         /\ pc' = NextPc("fetched", r.err)
    /\ events' = Append(events, "quote_request")
    /\ UNCHANGED <<tz, chartResp, candles, out, calls, segments, xlim, xticks,
                   xticklabels>>

\* print(f"... {price:.2f} TWD")
PrintPrice ==
    /\ pc = "fetched"
    /\ out' = Append(out, PriceLine(price))
    /\ events' = Append(events, "print_price")
    /\ pc' = "printed"
    /\ UNCHANGED <<err, tz, quoteResp, price, chartResp, candles, calls,
                   segments, xlim, xticks, xticklabels>>

\* candles = fetch_chart_data()
FetchChartData(Responses) ==
    /\ pc = "printed"
    /\ \E resp \in Responses :
         LET r == FetchChartData_result(resp, tz) IN
         /\ chartResp' = resp
         /\ candles' = IF r.err = "none" THEN r.value ELSE <<>>
         /\ err' = r.err
         /\ pc' = NextPc("charted", r.err)
    /\ events' = Append(events, "chart_request")
    /\ UNCHANGED <<tz, quoteResp, price, out, calls, segments, xlim, xticks,
                   xticklabels>>

\* plot_candlestick(candles)
PlotCandlestick ==
    /\ pc = "charted"
    /\ LET e == PlotCandlestick_effect(candles) IN
         /\ out' = out \o e.out
         /\ calls' = calls \o e.calls
         /\ segments' = segments \o e.segments
         /\ xlim' = e.xlim
         /\ xticks' = e.xticks
         /\ xticklabels' = e.xticklabels
    /\ events' = Append(events, "render")
    /\ pc' = "done"
    /\ UNCHANGED <<err, tz, quoteResp, price, chartResp, candles>>

-----------------------------------------------------------------------------
(* The responses of the two endpoints *)

Ticker == "2330.TW"

SeqsUpTo(S, n) == UNION {[1..m -> S] : m \in 0..n}

\* elements of quoteResponse.result: with a numeric, null or absent price
QuoteItems ==
    {[symbol |-> Ticker]}
    \cup {[symbol |-> Ticker, regularMarketPrice |-> x] :
            x \in {Null, JInt(58000), JFloat(58050)}}

QuoteBodies ==
    {[error |-> "Not Found"], [quoteResponse |-> [error |-> "Not Found"]]}
    \cup {[quoteResponse |-> [result |-> r, error |-> "null"]] :
            r \in SeqsUpTo(QuoteItems, MaxResults)}

QuoteResponses ==
    {[status |-> "timeout"], [status |-> "http_error", body |-> [error |-> "Not Found"]]}
    \cup {[status |-> "ok", body |-> b] : b \in QuoteBodies}

GoodQuoteResponses ==
    {[status |-> "ok",
      body |-> [quoteResponse |->
                  [result |-> <<[symbol |-> Ticker,
                                 regularMarketPrice |-> JFloat(58050)]>>,
                   error |-> "null"]]]}

Fields == {"open", "high", "low", "close"}

\* the sample of array f at index i (from 1), when it is not null: every
\* index has its own timestamp and prices
Sample(f, i) ==
    CASE f = "timestamp" -> JInt(1700000000 + (i - 1) * 86400)
      [] f = "open"      -> JInt(58000 + 1000 * i)
      [] f = "high"      -> JFloat(58550 + 1000 * i)
      [] f = "low"       -> JFloat(57950 + 1000 * i)
      [] f = "close"     -> JFloat(58025 + 1000 * i)

AllFields == Fields \cup {"timestamp"}

\* indicators.quote[0] with the keys K
QuoteObject(K, o, h, l, c) ==
    [k \in K |-> CASE k = "open" -> o [] k = "high" -> h
                   [] k = "low" -> l [] k = "close" -> c]

ChartOk(result) == [status |-> "ok", body |-> [chart |-> [result |-> result]]]

ShapedChart(ts, o, h, l, c) ==
    ChartOk(<<[timestamp |-> ts,
               indicators |-> [quote |-> <<QuoteObject(Fields, o, h, l, c)>>]]>>)

\* the arrays of m samples for f, each sample there or null
FieldArrays(f, m) ==
    {[i \in 1..m |-> IF i \in present THEN Sample(f, i) ELSE Null] :
        present \in SUBSET (1..m)}

\* the array of m samples for f, null at place j if g is f
FieldArray(f, m, g, j) ==
    [i \in 1..m |-> IF f = g /\ i = j THEN Null ELSE Sample(f, i)]

\* chart responses of the expected shape with five arrays of one length m,
\* nulls anywhere
EvenChartResponses(m) ==
    {ShapedChart(ts, o, h, l, c) :
        ts \in FieldArrays("timestamp", m), o \in FieldArrays("open", m),
        h \in FieldArrays("high", m), l \in FieldArrays("low", m),
        c \in FieldArrays("close", m)}

\* chart responses of the expected shape with arrays of any lengths up to n
\* and at most one null, at place j of array g
UnevenChartResponses(n) ==
    {ShapedChart(FieldArray("timestamp", lens["timestamp"], g, j),
                 FieldArray("open", lens["open"], g, j),
                 FieldArray("high", lens["high"], g, j),
                 FieldArray("low", lens["low"], g, j),
                 FieldArray("close", lens["close"], g, j)) :
        lens \in [AllFields -> 0..n], g \in AllFields, j \in 1..(n + 1)}

ShapedChartResponses(n) ==
    UNION {EvenChartResponses(m) : m \in 0..n} \cup UnevenChartResponses(n)

\* chart responses with part of the expected shape absent
BrokenChartResponses ==
    LET one(f) == <<Sample(f, 1)>>
        quotes == {QuoteObject(K, one("open"), one("high"), one("low"), one("close")) :
                     K \in SUBSET Fields}
        inds == {[meta |-> "x"], [quote |-> <<>>]}
                \cup {[quote |-> <<q>>] : q \in quotes}
        datas == {[meta |-> "x"], [timestamp |-> one("timestamp")]}
                 \cup {[indicators |-> i] : i \in inds}
                 \cup {[timestamp |-> one("timestamp"), indicators |-> i] : i \in inds}
    IN {[status |-> "timeout"], [status |-> "http_error", body |-> [error |-> "x"]],
        [status |-> "ok", body |-> [error |-> "x"]],
        [status |-> "ok", body |-> [chart |-> [error |-> "x"]]],
        ChartOk(<<>>)}
       \cup {ChartOk(<<d>>) : d \in datas}
       \cup {ChartOk(<<d, [meta |-> "x"]>>) : d \in datas}

ChartResponses == ShapedChartResponses(1) \cup BrokenChartResponses

\* complete daily charts of n bars starting at epoch second base; the bars
\* rise, fall and stay flat in turn
DailyChart(n, base, seed) ==
    LET o(i) == 58000 + 100 * ((7 * i + seed) % 5)
        c(i) == o(i) + 100 * (((i + seed) % 3) - 1)
    IN ChartOk(<<[timestamp |-> [i \in 1..n |-> JInt(base + (i - 1) * 86400)],
                  indicators |-> [quote |-> <<QuoteObject(Fields,
                      [i \in 1..n |-> JInt(o(i))],
                      [i \in 1..n |-> JFloat(Max({o(i), c(i)}) + 50)],
                      [i \in 1..n |-> JFloat(Min({o(i), c(i)}) - 50)],
                      [i \in 1..n |-> JInt(c(i))])>>]]>>)

DailyChartResponses ==
    {DailyChart(n, base, seed) :
        n \in 0..MaxBars, base \in {1700000000, 1701300000}, seed \in 0..2}

UTCOffsets == {-8, 0, 8}

-----------------------------------------------------------------------------
(* Specifications *)

\* one run of main against any responses
InitMain == Init(UTCOffsets)
Next ==
    \/ FetchLatestPrice(QuoteResponses)
    \/ PrintPrice
    \/ FetchChartData(ChartResponses)
    \/ PlotCandlestick
Spec == InitMain /\ [][Next]_vars

\* fetch_chart_data on well-shaped responses whose arrays vary in length
\* and in where their nulls are
InitChart == Init({8})
NextChart ==
    \/ FetchLatestPrice(GoodQuoteResponses)
    \/ PrintPrice
    \/ \E m \in 0..MaxLen : FetchChartData(EvenChartResponses(m))
    \/ FetchChartData(UnevenChartResponses(MaxLen))
    \/ PlotCandlestick
SpecChart == InitChart /\ [][NextChart]_vars

\* plot_candlestick on complete charts of up to MaxBars bars
InitPlot == Init(UTCOffsets)
NextPlot ==
    \/ FetchLatestPrice(GoodQuoteResponses)
    \/ PrintPrice
    \/ FetchChartData(DailyChartResponses)
    \/ PlotCandlestick
SpecPlot == InitPlot /\ [][NextPlot]_vars

-----------------------------------------------------------------------------
(* What the properties below speak of *)

Steps == <<"quote_request", "print_price", "chart_request", "render">>

\* the step has been taken
Done(step) == \E k \in 1..Len(events) : events[k] = step

QuoteRaised == pc = "error" /\ Len(events) = 1
ChartRaised == pc = "error" /\ Len(events) = 3
ChartReturned == Done("chart_request") /\ ~ChartRaised

\* the chart response has the whole expected shape
WholeShape(resp) ==
    /\ resp.status = "ok"
    /\ HasKey(resp.body, "chart")
    /\ HasKey(resp.body.chart, "result")
    /\ Len(resp.body.chart.result) > 0
    /\ HasKey(resp.body.chart.result[1], "timestamp")
    /\ HasKey(resp.body.chart.result[1], "indicators")
    /\ HasKey(resp.body.chart.result[1].indicators, "quote")
    /\ Len(resp.body.chart.result[1].indicators.quote) > 0
    /\ \A f \in Fields : HasKey(resp.body.chart.result[1].indicators.quote[1], f)

\* the five arrays of a response of the whole shape
Arr(resp, f) ==
    IF f = "timestamp" THEN resp.body.chart.result[1].timestamp
    ELSE resp.body.chart.result[1].indicators.quote[1][f]

ShortestLen(resp) == Min({Len(Arr(resp, f)) : f \in AllFields})
LongestLen(resp) == Max({Len(Arr(resp, f)) : f \in AllFields})

\* the indices at which all five values exist and none is null
FullIndices(resp) ==
    {i \in 1..LongestLen(resp) :
        \A f \in AllFields : i <= Len(Arr(resp, f)) /\ Arr(resp, f)[i] # Null}

\* the k-th smallest element of a set of numbers
Kth(S, k) == CHOOSE i \in S : Cardinality({j \in S : j < i}) = k - 1

\* bar carries the values of index i of the response
CarriesIndex(bar, resp, i) ==
    /\ bar.time = FromTimestamp(Arr(resp, "timestamp")[i].v, tz)
    /\ \A f \in Fields : bar[f].t = "float" /\ bar[f].v = Arr(resp, f)[i].v

-----------------------------------------------------------------------------
(* C1: for a chart response whose five arrays are present,                 *)
(* fetch_chart_data returns exactly one bar per index at which none of the *)
(* five values is null: the k-th bar carries the timestamp and the         *)
(* open/high/low/close values of the k-th such index, so input order is    *)
(* kept, an index with a null is left out whole, and the result may be     *)
(* empty.                                                                  *)
C1_OneBarPerFullIndex ==
    (Done("chart_request") /\ WholeShape(chartResp)) =>
        /\ ChartReturned
        /\ Len(candles) = Cardinality(FullIndices(chartResp))
        /\ \A k \in 1..Len(candles) :
             CarriesIndex(candles[k], chartResp, Kth(FullIndices(chartResp), k))

\* n samples complete but for one null close: n-1 bars
C1_Witness ==
    /\ pc = "charted"
    /\ WholeShape(chartResp)
    /\ ShortestLen(chartResp) = LongestLen(chartResp)
    /\ LongestLen(chartResp) >= 2
    /\ \E i \in 1..LongestLen(chartResp) :
         /\ Arr(chartResp, "close")[i] = Null
         /\ FullIndices(chartResp) = (1..LongestLen(chartResp)) \ {i}
    /\ Len(candles) = LongestLen(chartResp) - 1

(* C10: when the five arrays are not of equal length, fetch_chart_data     *)
(* raises no error and looks only at the indices up to the shortest        *)
(* array's length: it returns at most that many bars, every bar comes from *)
(* such an index, and no bar carries a value of an index beyond it.        *)
C10_UnequalLengthsTruncate ==
    (Done("chart_request") /\ WholeShape(chartResp)
       /\ ShortestLen(chartResp) # LongestLen(chartResp)) =>
        /\ ChartReturned
        /\ err = "none"
        /\ Len(candles) <= ShortestLen(chartResp)
        /\ \A k \in 1..Len(candles) :
             \E i \in 1..ShortestLen(chartResp) : CarriesIndex(candles[k], chartResp, i)
        /\ \A i \in (ShortestLen(chartResp) + 1)..LongestLen(chartResp) :
             \A k \in 1..Len(candles) :
               /\ candles[k].time # FromTimestamp(Sample("timestamp", i).v, tz)
               /\ \A f \in Fields : candles[k][f].v # Sample(f, i).v

\* an index beyond the shortest array, all of whose values are there and
\* not null, is dropped while an earlier index gives a bar
C10_Witness ==
    /\ pc = "charted"
    /\ WholeShape(chartResp)
    /\ ShortestLen(chartResp) < LongestLen(chartResp)
    /\ \E i \in (ShortestLen(chartResp) + 1)..LongestLen(chartResp) :
         /\ \E f \in AllFields : i <= Len(Arr(chartResp, f))
         /\ \A f \in AllFields :
              i <= Len(Arr(chartResp, f)) => Arr(chartResp, f)[i] # Null
    /\ Len(candles) = ShortestLen(chartResp)
    /\ Len(candles) >= 1

-----------------------------------------------------------------------------
\* the quote response is a success with a result list
HasResultList(resp) ==
    /\ resp.status = "ok"
    /\ HasKey(resp.body, "quoteResponse")
    /\ HasKey(resp.body.quoteResponse, "result")

ResultList(resp) == resp.body.quoteResponse.result

(* C2: for a successful quote response whose result list is not empty and  *)
(* whose first element has a numeric regularMarketPrice,                   *)
(* fetch_latest_price returns that number as a float, whatever follows the *)
(* first element.                                                          *)
C2_FirstResultPrice ==
    (Done("quote_request") /\ HasResultList(quoteResp)
       /\ Len(ResultList(quoteResp)) > 0
       /\ HasKey(ResultList(quoteResp)[1], "regularMarketPrice")
       /\ ResultList(quoteResp)[1].regularMarketPrice # Null) =>
        /\ ~QuoteRaised
        /\ price.t = "float"
        /\ price.v = ResultList(quoteResp)[1].regularMarketPrice.v

\* an integer price in front of an element with another price
C2_Witness ==
    /\ pc = "fetched"
    /\ HasResultList(quoteResp)
    /\ Len(ResultList(quoteResp)) = 2
    /\ ResultList(quoteResp)[1] = [symbol |-> Ticker, regularMarketPrice |-> JInt(58000)]
    /\ ResultList(quoteResp)[2] = [symbol |-> Ticker, regularMarketPrice |-> JFloat(58050)]
    /\ price = JFloat(58000)

(* C3: for a successful quote response whose result list is empty,         *)
(* fetch_latest_price raises ValueError and returns no price: the run ends *)
(* there with nothing printed.                                             *)
C3_EmptyResultRaises ==
    (Done("quote_request") /\ HasResultList(quoteResp)
       /\ Len(ResultList(quoteResp)) = 0) =>
        /\ QuoteRaised
        /\ err = "ValueError"
        /\ price = Null
        /\ out = <<>>

C3_Witness ==
    /\ HasResultList(quoteResp)
    /\ ResultList(quoteResp) = <<>>
    /\ pc = "error"
    /\ err = "ValueError"

-----------------------------------------------------------------------------
StructuralError == {"KeyError", "IndexError"}

\* the chart response is a success whose shape lacks something other than
\* the timestamp array
LacksBeyondTimestamp(resp) ==
    /\ resp.status = "ok"
    /\ \/ ~HasKey(resp.body, "chart")
       \/ ~HasKey(resp.body.chart, "result")
       \/ Len(resp.body.chart.result) = 0
       \/ ~HasKey(resp.body.chart.result[1], "indicators")
       \/ ~HasKey(resp.body.chart.result[1].indicators, "quote")
       \/ Len(resp.body.chart.result[1].indicators.quote) = 0
       \/ \E f \in Fields : ~HasKey(resp.body.chart.result[1].indicators.quote[1], f)

\* the chart response is a success that lacks the timestamp array only
LacksTimestampOnly(resp) ==
    /\ resp.status = "ok"
    /\ ~WholeShape(resp)
    /\ ~LacksBeyondTimestamp(resp)

(* C4, as stated: for a successful chart response in which any field of    *)
(* the expected shape is absent, fetch_chart_data fails with a             *)
(* structural-parse error and returns no bar sequence.                     *)
C4_AnyAbsentFieldRaises ==
    (Done("chart_request") /\ chartResp.status = "ok" /\ ~WholeShape(chartResp)) =>
        /\ ChartRaised
        /\ err \in StructuralError

(* C4, amended: for a successful chart response in which a field of the    *)
(* expected shape other than result[0].timestamp is absent,                *)
(* fetch_chart_data fails with a structural-parse error (KeyError or       *)
(* IndexError) and returns no bar sequence; when only timestamp is absent  *)
(* it raises nothing and returns the empty bar sequence.                   *)
C4_AbsentFieldRaisesButTimestamp ==
    /\ (Done("chart_request") /\ LacksBeyondTimestamp(chartResp)) =>
          /\ ChartRaised
          /\ err \in StructuralError
          /\ candles = <<>>
    /\ (Done("chart_request") /\ LacksTimestampOnly(chartResp)) =>
          /\ ChartReturned
          /\ err = "none"
          /\ candles = <<>>

\* the close array is absent and the lookup has failed
C4_Witness ==
    /\ pc = "error"
    /\ err = "KeyError"
    /\ chartResp.status = "ok"
    /\ HasKey(chartResp.body, "chart")
    /\ HasKey(chartResp.body.chart, "result")
    /\ Len(chartResp.body.chart.result) > 0
    /\ HasKey(chartResp.body.chart.result[1], "timestamp")
    /\ HasKey(chartResp.body.chart.result[1], "indicators")
    /\ HasKey(chartResp.body.chart.result[1].indicators, "quote")
    /\ Len(chartResp.body.chart.result[1].indicators.quote) > 0
    /\ DOMAIN chartResp.body.chart.result[1].indicators.quote[1] = Fields \ {"close"}

-----------------------------------------------------------------------------
\* how many elements of a sequence equal x
Count(seq, x) == Cardinality({k \in 1..Len(seq) : seq[k] = x})

(* C5: given an empty bar sequence, plot_candlestick makes no plotting or  *)
(* display call (no figure, no segment, no axis setting, no show), prints  *)
(* the no-data notice exactly once and returns normally, so the run ends   *)
(* without an error.                                                       *)
C5_EmptyBarsOnlyNotice ==
    /\ (pc = "charted" /\ candles = <<>>) => ENABLED PlotCandlestick
    /\ (Done("render") /\ candles = <<>>) =>
          /\ pc = "done"
          /\ err = "none"
          /\ calls = <<>>
          /\ segments = <<>>
          /\ xlim = <<>>
          /\ xticks = <<>>
          /\ xticklabels = <<>>
          /\ Count(out, NoDataNotice) = 1
          /\ out[Len(out)] = NoDataNotice

\* a chart of samples that all have a null gives no bar
C5_Witness ==
    /\ pc = "done"
    /\ candles = <<>>
    /\ WholeShape(chartResp)
    /\ LongestLen(chartResp) > 0
    /\ out = <<PriceLine(price), NoDataNotice>>

-----------------------------------------------------------------------------
\* the initial segment of seq of length n
Prefix(seq, n) == [k \in 1..n |-> seq[k]]

(* C8: one run of main takes its steps in the order quote request, price   *)
(* print, chart request, render, each at most once; the chart request      *)
(* comes only after the quote fetch succeeded and the price was printed,   *)
(* rendering only after the chart fetch succeeded; a step that fails ends  *)
(* the run in an error state in which no later step has happened or can.   *)
C8_StrictOrderNoRetry ==
    /\ Len(events) <= Len(Steps)
    /\ events = Prefix(Steps, Len(events))
    /\ Done("chart_request") =>
          /\ FetchLatestPrice_result(quoteResp).err = "none"
          /\ Len(out) >= 1
          /\ out[1] = PriceLine(price)
    /\ Done("render") => FetchChartData_result(chartResp, tz).err = "none"
    /\ (Done("quote_request") /\ FetchLatestPrice_result(quoteResp).err # "none") =>
          /\ pc = "error"
          /\ err = FetchLatestPrice_result(quoteResp).err
          /\ events = <<"quote_request">>
          /\ out = <<>>
          /\ calls = <<>>
    /\ (Done("chart_request") /\ FetchChartData_result(chartResp, tz).err # "none") =>
          /\ pc = "error"
          /\ err = FetchChartData_result(chartResp, tz).err
          /\ events = Prefix(Steps, 3)
          /\ Len(out) = 1
          /\ calls = <<>>
    /\ pc = "error" => (err # "none" /\ ~ENABLED Next)
    /\ pc # "error" => err = "none"

\* the chart fetch fails after the price was printed
C8_Witness ==
    /\ pc = "error"
    /\ err = "IndexError"
    /\ events = <<"quote_request", "print_price", "chart_request">>
    /\ out = <<PriceLine(price)>>

-----------------------------------------------------------------------------
\* the three segments drawn for the bar at position idx (from 0)
SegmentsOf(idx) == {segments[3 * idx + k] : k \in 1..3}

(* C6: plot_candlestick colors a bar green exactly when close >= open and  *)
(* red exactly when close < open, so a bar with close = open is green, and *)
(* all segments of one bar have that one color.                            *)
C6_ColorByDirection ==
    Done("render") =>
        /\ Len(segments) = 3 * Len(candles)
        /\ \A idx \in 0..(Len(candles) - 1) :
             LET bar == candles[idx + 1] IN
             /\ bar.close.v >= bar.open.v => \A sg \in SegmentsOf(idx) : sg.color = Green
             /\ bar.close.v < bar.open.v => \A sg \in SegmentsOf(idx) : sg.color = Red

\* a flat bar drawn green beside a falling bar drawn red
C6_Witness ==
    /\ pc = "done"
    /\ \E i, j \in 0..(Len(candles) - 1) :
         /\ candles[i + 1].close.v = candles[i + 1].open.v
         /\ segments[3 * i + 2].color = Green
         /\ candles[j + 1].close.v < candles[j + 1].open.v
         /\ segments[3 * j + 2].color = Red

(* C7: for n > 0 bars plot_candlestick draws, for each position i from 0   *)
(* to n-1 in increasing order, three segments and no others: the wick at   *)
(* x = i from low to high, the open tick at y = open over [i-0.2, i], the  *)
(* close tick at y = close over [i, i+0.2]; 3n segments in all; and the    *)
(* x-axis limits are [-1, n].  Positions are in fifths.                    *)
C7_ThreeSegmentsPerBar ==
    (Done("render") /\ Len(candles) > 0) =>
        /\ Len(segments) = 3 * Len(candles)
        /\ Count(calls, "plot") = 3 * Len(candles)
        /\ \A i \in 0..(Len(candles) - 1) :
             LET bar == candles[i + 1] IN
             /\ segments[3 * i + 1].x = <<5 * i, 5 * i>>
             /\ segments[3 * i + 1].y = <<bar.low, bar.high>>
             /\ segments[3 * i + 2].x = <<5 * i - 1, 5 * i>>
             /\ segments[3 * i + 2].y = <<bar.open, bar.open>>
             /\ segments[3 * i + 3].x = <<5 * i, 5 * i + 1>>
             /\ segments[3 * i + 3].y = <<bar.close, bar.close>>
        /\ xlim = <<-1, Len(candles)>>

\* the longest chart, drawn
C7_Witness ==
    /\ pc = "done"
    /\ Len(candles) >= 13
    /\ Len(segments) = 3 * Len(candles)
    /\ segments[6].x = <<5, 6>>

(* C9: for n > 0 bars the x-axis ticks are exactly the multiples of        *)
(* step = max(n // 6, 1) that are smaller than n, in increasing order;     *)
(* each is labelled with the month-day date of the bar at its position;    *)
(* each is a bar index in 0..n-1; and there are at least min(n, 6) ticks.  *)
C9_TickPositions ==
    (Done("render") /\ Len(candles) > 0) =>
        LET n == Len(candles)
            step == IF n \div 6 >= 1 THEN n \div 6 ELSE 1
            twodigit(d) == IF d < 10 THEN "0" \o ToString(d) ELSE ToString(d)
        IN
        /\ {xticks[k] : k \in 1..Len(xticks)} = {m \in 0..(n - 1) : m % step = 0}
        /\ \A k \in 1..(Len(xticks) - 1) : xticks[k] < xticks[k + 1]
        /\ \A k \in 1..Len(xticks) : xticks[k] \in 0..(n - 1)
        /\ Len(xticklabels) = Len(xticks)
        /\ \A k \in 1..Len(xticks) :
             xticklabels[k] = twodigit(candles[xticks[k] + 1].time.month)
                              \o "-" \o twodigit(candles[xticks[k] + 1].time.day)
        /\ Len(xticks) >= Min({n, 6})

\* thirteen bars: a step of two and seven ticks, the labels running from
\* one month into the next
C9_Witness ==
    /\ pc = "done"
    /\ Len(candles) = 13
    /\ xticks = <<0, 2, 4, 6, 8, 10, 12>>
    /\ xticklabels[1] = "11-30"
    /\ xticklabels[2] = "12-02"

====
